---------------------------- MODULE Spec2Model ----------------------------
(***************************************************************************)
(* A model of the metric-collection engine of qnapexporter                 *)
(* (lib/exporter/prometheus/prometheus.go): the exporter's environment     *)
(* cache, the fan-out of one goroutine per registered producer, the        *)
(* buffered channel the workers push to, the goroutine that closes the     *)
(* channel once the wait group is released, and the drain loop that writes *)
(* the response.                                                           *)
(*                                                                         *)
(* Time is counted in seconds.  Strings that the code takes apart (the     *)
(* names of directory entries) are sequences of characters; text the code  *)
(* only formats is kept as the record of its parts, one record per line.   *)
(***************************************************************************)
EXTENDS Integers, Sequences, FiniteSets, TLC

\* ------------------------------------------------------------ constants

\* envValidity = time.Duration(5 * time.Minute), in seconds
envValidity == 300

\* metricsCh := make(chan interface{}, 4)
ChanCap == 4

\* speedtestValidity = 1 * time.Hour, in seconds
speedtestValidity == 3600

\* the zero time.Time, of which IsZero() is true: before every time.Now()
ZeroTime == -1

\* ---------------------------------------------------------------- bounds

\* the largest producer registry of the fan-in specification
MaxFns == 5

\* the largest producer registry of the rendering and sequential specifications
MaxFnsSmall == 2

\* the most metrics the producers of one call return, all lists together, in
\* the rendering specification
MaxMetrics == 3

\* the number of WriteMetrics calls of the sequential specification
MaxRequests == 2

\* the most entries of a directory in the discovery specification, but for
\* the directory of the device-name scenario
MaxEntries == 2

\* the most servers speedtest's FindServer returns
MaxTargets == 2

\* the number of getBandwidthMetrics calls of the bandwidth specification
MaxBwCalls == 3

\* the number of goroutines that use the UPS client while Close runs
MaxUpsUsers == 3

\* the number of WriteMetrics calls that run at the same time in the racing
\* specification
MaxRacers == 2

\* the error value nil
Nil == "<nil>"

\* the string ""
Empty == ""

VARIABLES
    clock,      \* the wall clock (what time.Now() returns)
    fns,        \* e.fns: the producer registry
    env,        \* e.hostname, e.getsysinfo, e.syshdnum, e.sysfannum, e.ifaces,
                \* e.iostat, e.devices, e.envExpiry
    status,     \* *e.status (MetricCount, LastFetch, Devices, Interfaces)
    pc,         \* where the goroutine that runs WriteMetrics stands
    now,        \* the time.Now() the running WriteMetrics call read
    idx,        \* the index of the launch loop (0-based, as in the code)
    wg,         \* the counter of the sync.WaitGroup
    ch,         \* the buffer of metricsCh
    closed,     \* whether metricsCh is closed
    closer,     \* where the goroutine of lines 108-112 stands
    wpc,        \* where each fetchMetricsWorker goroutine stands
    res,        \* each worker's (metrics, err) as returned by its producer
    pending,    \* the sends each worker still has to perform
    w,          \* the response written so far (io.Writer), a sequence of lines
    ret,        \* what the last WriteMetrics call returned
    panicked,   \* a goroutine panicked (send on a closed channel)
    recv,       \* history: the messages the drain loop received, in order
    pushed,     \* history: how many messages each worker pushed in this call
    calls,      \* history: how often each producer was invoked, over all calls
    reqs,       \* history: the number of WriteMetrics calls started
    refreshed,  \* history: whether the running call ran readEnvironment
    lastDisc,   \* history: the request time of the latest readEnvironment
    prevDisc,   \* history: lastDisc as it was when the running call began
    prevFailed, \* history: the producers that failed in the previous call
    seen,       \* history: e.hostname, e.devices and e.ifaces as each worker's
                \* producer found them when it was called
    hostShown,  \* history: what the host shows to the running call
    envBefore,  \* history: the environment fields of the exporter as they
                \* were when the running call began
    cpc,        \* where each of the concurrent WriteMetrics calls stands
    cinfo,      \* each concurrent call's local info: the directory entries
                \* its readEnvironment loop has still to visit
    cseen,      \* history: e.ifaces as the getNetworkStatsMetrics of each
                \* concurrent call read it
    cexpired,   \* history: whether each concurrent call ran readEnvironment
    speedtestTargets,   \* e.speedtestTargets: the servers, with the speeds
                        \* their latest tests measured
    speedtestLastRun,   \* e.speedtestLastRun
    bwCalls,    \* history: the number of getBandwidthMetrics calls
    bwLog,      \* history: what the latest getBandwidthMetrics call found,
                \* did and returned
    upsVersion, \* e.upsState.upsClient.ProtocolVersion
    upsLock,    \* e.upsState.upsLock: who holds it
    closePc,    \* where the goroutine that runs Close stands
    upsPc,      \* where each goroutine that uses the UPS client stands
    upsLog      \* history: what Close read at line 148, whether it took the
                \* lock, and the state of the client and of the lock at each
                \* Disconnect

\* the history of the running call that only its beginning writes
callHist == <<hostShown, envBefore>>

\* the concurrent WriteMetrics calls
raceVars == <<cpc, cinfo, cseen, cexpired>>

\* the bandwidth producer
bwVars == <<speedtestTargets, speedtestLastRun, bwCalls, bwLog>>

\* the UPS client, its lock, and the goroutines that use them
upsVars == <<upsVersion, upsLock, closePc, upsPc, upsLog>>

\* the state no step of the single WriteMetrics call touches
layers == <<raceVars, bwVars, upsVars>>

vars == <<clock, fns, env, status, pc, now, idx, wg, ch, closed, closer, wpc,
          res, pending, w, ret, panicked, recv, pushed, calls, reqs,
          refreshed, lastDisc, prevDisc, prevFailed, seen, callHist, layers>>

\* ------------------------------------------------------------ sequences

RECURSIVE SeqSum(_)
SeqSum(s) == IF s = <<>> THEN 0 ELSE Head(s) + SeqSum(Tail(s))

RECURSIVE Flatten(_)
Flatten(ss) == IF ss = <<>> THEN <<>> ELSE Head(ss) \o Flatten(Tail(ss))

\* strings.HasPrefix on sequences of characters
HasPrefix(s, prefix) ==
    /\ Len(s) >= Len(prefix)
    /\ SubSeq(s, 1, Len(prefix)) = prefix

\* --------------------------------------------------------------- metrics

\* type metric: name, attr, value, help, metricType (the timestamp is never
\* rendered by WriteMetrics and is left out)
Metric(name, attr, value, help, metricType) ==
    [name |-> name, attr |-> attr, value |-> value, help |-> help,
     metricType |-> metricType]

\* one line of the response, by its parts
Line(kind, name, node, attr, text, num) ==
    [kind |-> kind, name |-> name, node |-> node, attr |-> attr,
     text |-> text, num |-> num]

\* getMetricFullName: name{node="hostname",attr} or name{node="hostname"}
getMetricFullName(hostname, m) ==
    [name |-> m.name, node |-> hostname, attr |-> m.attr]

\* fmt.Fprintf(w, "%s %g\n", e.getMetricFullName(m), m.value)
ValueLine(hostname, m) ==
    LET full == getMetricFullName(hostname, m)
    IN  Line("value", full.name, full.node, full.attr, Empty, m.value)

\* the metadata with the # TYPE line first
writeMetricMetadataTypeFirst(m) ==
    (IF m.metricType # Empty
        THEN <<Line("# TYPE", m.name, Empty, Empty, m.metricType, 0)>> ELSE <<>>)
    \o
    (IF m.help # Empty
        THEN <<Line("# HELP", m.name, Empty, Empty, m.help, 0)>> ELSE <<>>)

\* writeMetricMetadata: the # HELP line, then the # TYPE line, each only when
\* its text is not empty
writeMetricMetadata(m) ==
    (IF m.help # Empty
        THEN <<Line("# HELP", m.name, Empty, Empty, m.help, 0)>> ELSE <<>>)
    \o
    (IF m.metricType # Empty
        THEN <<Line("# TYPE", m.name, Empty, Empty, m.metricType, 0)>> ELSE <<>>)

\* lines 121-124: one metric of a batch, its metadata and then its value
WriteMetric(hostname, m) ==
    writeMetricMetadata(m) \o <<ValueLine(hostname, m)>>

\* lines 121-124: the whole batch, in the order of the slice
WriteBatch(hostname, v) ==
    Flatten([j \in DOMAIN v |-> WriteMetric(hostname, v[j])])

\* fmt.Fprintf(w, "## %v\n", v) of the error
\* fmt.Errorf("retrieve metric #%d: %w", ord, cause)
ErrorLine(ord, cause) ==
    Line("##", "retrieve metric #", Empty, Empty, cause, ord)

\* -------------------------------------------------------------- messages

MetricsMsg(metrics) ==
    [type |-> "metrics", metrics |-> metrics, ord |-> 0, cause |-> Nil]

\* the error tagged with the 0-based loop index
ErrorMsgZeroBased(i, cause) ==
    [type |-> "error", metrics |-> <<>>, ord |-> i, cause |-> cause]

\* fmt.Errorf("retrieve metric #%d: %w", 1+idx, err)
ErrorMsg(i, cause) ==
    [type |-> "error", metrics |-> <<>>, ord |-> 1 + i, cause |-> cause]

\* a worker that pushes its metrics one by one instead of the list
WorkerSendsEach(i, r) ==
    IF r.err # Nil
        THEN <<ErrorMsg(i, r.err)>>
        ELSE [j \in DOMAIN r.metrics |-> MetricsMsg(<<r.metrics[j]>>)]

\* the worker without the return of line 141: after the error it goes on to
\* send the metrics too
WorkerSendsNoReturn(i, r) ==
    IF r.err # Nil
        THEN <<ErrorMsg(i, r.err), MetricsMsg(r.metrics)>>
        ELSE <<MetricsMsg(r.metrics)>>

\* fetchMetricsWorker, lines 138-144: the sends worker i performs once its
\* producer has returned r = (metrics, err)
WorkerSends(i, r) ==
    IF r.err # Nil
        THEN <<ErrorMsg(i, r.err)>>
        ELSE <<MetricsMsg(r.metrics)>>

\* ----------------------------------------------------------- environment

\* what the host shows to one run of readEnvironment
\*   HOSTNAME      os.Getenv("HOSTNAME")
\*   hostnameCmd   utils.ExecCommand("hostname"): [out, err]
\*   iostatPath, getsysinfoPath   exec.LookPath: [out, err]
\*   hdnum, sysfannum   utils.ExecCommand(getsysinfo, ...): [out, err],
\*                 out being what strconv.Atoi makes of the output:
\*                 [n, err]
\*   netDir, devDir   ioutil.ReadDir: a sequence of [name, isDir]
NoEnv ==
    [hostname |-> Empty, getsysinfo |-> Empty, syshdnum |-> 0, sysfannum |-> 0,
     ifaces |-> <<>>, iostat |-> Empty, devices |-> <<>>, envExpiry |-> 0]

\* lines 197-200: the entries the interface loop keeps
IsIface(d) == HasPrefix(d.name, <<"e", "t", "h">>)

\* a device loop without the switch of lines 213-218: any length passes
IsDeviceAnyLength(d) ==
    LET dev == d.name
        nvme == HasPrefix(dev, <<"n", "v", "m", "e">>)
        sd == HasPrefix(dev, <<"s", "d">>)
    IN  ~(d.isDir \/ (~nvme /\ ~sd))

\* lines 208-218: the entries the device loop keeps
IsDevice(d) ==
    LET dev == d.name
        nvme == HasPrefix(dev, <<"n", "v", "m", "e">>)
        sd == HasPrefix(dev, <<"s", "d">>)
    IN  /\ ~(d.isDir \/ (~nvme /\ ~sd))
        /\ ~(nvme /\ Len(dev) # 7)
        /\ ~(sd /\ Len(dev) # 3)

\* lines 195-204: e.ifaces, appended to in directory order
RECURSIVE ReadIfaces(_)
ReadIfaces(info) ==
    IF info = <<>> THEN <<>>
    ELSE (IF IsIface(Head(info)) THEN <<Head(info).name>> ELSE <<>>)
         \o ReadIfaces(Tail(info))

\* lines 206-221: e.devices, appended to in directory order
RECURSIVE ReadDevices(_)
ReadDevices(info) ==
    IF info = <<>> THEN <<>>
    ELSE (IF IsDevice(Head(info)) THEN <<Head(info).name>> ELSE <<>>)
         \o ReadDevices(Tail(info))

\* readEnvironment, lines 159-224, on the exporter fields e with the host
\* showing h
readEnvironment(e, h) ==
    LET hostname == IF h.HOSTNAME # Empty THEN h.HOSTNAME ELSE h.hostnameCmd.out
        iostat == IF e.iostat = Empty THEN h.iostatPath.out ELSE e.iostat
        getsysinfo ==
            IF e.getsysinfo = Empty THEN h.getsysinfoPath.out ELSE e.getsysinfo
        syshdnum ==
            IF getsysinfo = Empty THEN e.syshdnum
            ELSE IF h.hdnum.err = Nil THEN h.hdnum.out ELSE -1
        sysfannum ==
            IF getsysinfo = Empty THEN e.sysfannum
            ELSE IF h.sysfannum.err = Nil THEN h.sysfannum.out ELSE -1
    IN  [hostname |-> hostname,
         getsysinfo |-> getsysinfo,
         syshdnum |-> syshdnum,
         sysfannum |-> sysfannum,
         ifaces |-> ReadIfaces(h.netDir),
         iostat |-> iostat,
         devices |-> ReadDevices(h.devDir),
         envExpiry |-> e.envExpiry + envValidity]


\* -------------------------------------------------------------- producers

\* what a producer returns: ([]metric, error)
FnResult(metrics, err) == [metrics |-> metrics, err |-> err]

\* a worker whose producer has not returned yet
NoResult == FnResult(<<>>, Nil)

\* the metric list of producer k (its 1-based place in e.fns) with the given
\* names, help texts and types; the values tell the metrics of a response apart
MkMetrics(k, shapes) ==
    [j \in DOMAIN shapes |->
        Metric(shapes[j].name, shapes[j].attr, 10 * k + j, shapes[j].help,
               shapes[j].metricType)]

Shape(name, attr, help, metricType) ==
    [name |-> name, attr |-> attr, help |-> help, metricType |-> metricType]

Causes == {"connection refused", "timeout"}

\* the producer's results in the fan-in specification: a list of one metric,
\* or an error (which a producer may return together with the metrics it had
\* gathered, as getBandwidthMetrics does)
FanInResults(k) ==
    LET ms == MkMetrics(k, <<Shape("node_load1", Empty, Empty, Empty)>>)
    IN  {FnResult(ms, Nil), FnResult(ms, "connection refused")}

\* metrics as the producers of the repository build them: with help and type
\* (getNetworkStatMetric), with neither (getPingMetrics), with one of the two
Shapes ==
    {Shape("node_network_receive_bytes_total", "device", "Total received", "counter"),
     Shape("node_network_receive_bytes_total", "device", "Total received", Empty),
     Shape("node_network_receive_bytes_total", "device", Empty, "counter"),
     Shape("node_network_external_roundtrip_time_ms", Empty, Empty, Empty)}

RECURSIVE SeqsUpTo(_, _)
SeqsUpTo(S, n) ==
    IF n = 0 THEN {<<>>}
    ELSE LET shorter == SeqsUpTo(S, n - 1)
         IN  shorter \cup {Append(q, x) : q \in shorter, x \in S}

\* the producer's results in the rendering specification: every list of
\* metrics that keeps the call within MaxMetrics, or an error
RenderResults(k) ==
    LET returned == SeqSum([p \in 1 .. Len(fns) |-> Len(res[p - 1].metrics)])
    IN  {FnResult(MkMetrics(k, shapes), Nil) :
            shapes \in SeqsUpTo(Shapes, MaxMetrics - returned)}
        \cup {FnResult(<<>>, c) : c \in Causes}

\* the producer's results in the termination specification: the producers
\* at the odd places of e.fns fail, those at the even places return a list
LiveResults(k) ==
    IF k % 2 = 1
        THEN {FnResult(<<>>, "timeout")}
        ELSE {FnResult(MkMetrics(k, <<Shape("node_load1", Empty, Empty, Empty)>>), Nil)}

\* the producer's results in the counting specification: the producer at
\* place k returns a list of k metrics, or fails with one metric in hand
CountResults(k) ==
    LET shape == Shape("node_load1", Empty, Empty, Empty)
    IN  {FnResult(MkMetrics(k, [j \in 1 .. k |-> shape]), Nil),
         FnResult(MkMetrics(k, <<shape>>), "timeout")}

\* the producer's results in the sequential specification
SeqResults(k) ==
    {FnResult(MkMetrics(k, <<Shape("node_load1", Empty, Empty, Empty)>>), Nil),
     FnResult(<<>>, "timeout")}

\* ------------------------------------------------------------------ hosts

Cmd(out, err) == [out |-> out, err |-> err]

Entry(name, isDir) == [name |-> name, isDir |-> isDir]

\* a host on which every lookup succeeds
HostOk ==
    [HOSTNAME |-> "nas", hostnameCmd |-> Cmd("nas", Nil),
     iostatPath |-> Cmd("/usr/bin/iostat", Nil),
     getsysinfoPath |-> Cmd("/sbin/getsysinfo", Nil),
     hdnum |-> Cmd(4, Nil), sysfannum |-> Cmd(2, Nil),
     netDir |-> <<Entry(<<"e", "t", "h", "0">>, FALSE), Entry(<<"l", "o">>, FALSE)>>,
     devDir |-> <<Entry(<<"s", "d", "a">>, FALSE), Entry(<<"s", "d", "a", "1">>, FALSE)>>]

\* a host on which every lookup fails
HostFailing ==
    [HOSTNAME |-> Empty, hostnameCmd |-> Cmd(Empty, "exit status 1"),
     iostatPath |-> Cmd(Empty, "not found"),
     getsysinfoPath |-> Cmd(Empty, "not found"),
     hdnum |-> Cmd(0, "exit status 1"), sysfannum |-> Cmd(0, "exit status 1"),
     netDir |-> <<>>, devDir |-> <<>>]

\* entries of /dev and /sys/class/net, in the order ioutil.ReadDir returns
\* them (sorted by name): et, eth0, eth1/, lo, nvme0n1, nvme0n1p1, nvme1n1/,
\* sda, sdaa, sdb/ (a / marks a directory)
Pool ==
    <<Entry(<<"e", "t">>, FALSE),
      Entry(<<"e", "t", "h", "0">>, FALSE),
      Entry(<<"e", "t", "h", "1">>, TRUE),
      Entry(<<"l", "o">>, FALSE),
      Entry(<<"n", "v", "m", "e", "0", "n", "1">>, FALSE),
      Entry(<<"n", "v", "m", "e", "0", "n", "1", "p", "1">>, FALSE),
      Entry(<<"n", "v", "m", "e", "1", "n", "1">>, TRUE),
      Entry(<<"s", "d", "a">>, FALSE),
      Entry(<<"s", "d", "a", "a">>, FALSE),
      Entry(<<"s", "d", "b">>, TRUE)>>

\* the entries of Pool at the places S, in the order of Pool, from place i on
RECURSIVE Listing(_, _)
Listing(S, i) ==
    IF i > Len(Pool) THEN <<>>
    ELSE (IF i \in S THEN <<Pool[i]>> ELSE <<>>) \o Listing(S, i + 1)

\* the directory of the device-name scenario: eth0, lo, nvme0n1, nvme0n1p1,
\* sda, sdaa
ScenarioDir == Listing({2, 4, 5, 6, 8, 9}, 1)

\* the directories of the discovery specification
Listings ==
    {Listing(S, 1) : S \in {T \in SUBSET DOMAIN Pool : Cardinality(T) <= MaxEntries}}
    \cup {ScenarioDir}

\* the hosts of the discovery specification: HostOk with /sys/class/net and
\* /dev holding the entries of a listing
EnvHosts == {[HostOk EXCEPT !.netDir = dir, !.devDir = dir] : dir \in Listings}

\* before any readEnvironment: nothing of the host has been looked at
NoHost ==
    [HOSTNAME |-> Empty, hostnameCmd |-> Cmd(Empty, Nil),
     iostatPath |-> Cmd(Empty, Nil), getsysinfoPath |-> Cmd(Empty, Nil),
     hdnum |-> Cmd(0, Nil), sysfannum |-> Cmd(0, Nil),
     netDir |-> <<>>, devDir |-> <<>>]

\* the fields of the exporter a producer or the drain loop reads while the
\* call collects: e.hostname (getMetricFullName), e.ifaces
\* (getNetworkStatsMetrics), e.devices
EnvRead(e) == [hostname |-> e.hostname, devices |-> e.devices, ifaces |-> e.ifaces]

Racers == 1 .. MaxRacers

\* ------------------------------------------------------ bandwidth producer

\* a *speedtest.Server: its ID and the speeds its latest tests measured
Server(id) == [ID |-> id, DLSpeed |-> 0, ULSpeed |-> 0]

\* network.go lines 122-127 and 137-142: a metric of the bandwidth producer,
\* with its timestamp
BwMetric(name, id, timestamp, speed) ==
    [name |-> name, attr |-> id, timestamp |-> timestamp,
     value |-> speed * 1000 * 1000]

\* what the discovery of lines 88-104 comes to: an error of FetchUserInfo,
\* FetchServerList or FindServer, or the servers FindServer returns
Discovery(servers, err) == [servers |-> servers, err |-> err]

Discoveries ==
    {Discovery([k \in 1 .. n |-> Server(k)], Nil) : n \in 0 .. MaxTargets}
    \cup {Discovery(<<>>, "fetch user info: no route to host")}

\* what the tests of one call come to: the speeds they measure, and which
\* test fails, counting DownloadTest and UploadTest in the order of the loop
\* (0: none)
Measurement(dl, ul, failing) == [dl |-> dl, ul |-> ul, failing |-> failing]

Measurements(targets) ==
    {Measurement(v, v + 10, f) : v \in {1, 2}, f \in 0 .. 2 * Len(targets)}

\* lines 112-144, one round of the loop over e.speedtestTargets, for the
\* k-th server: if expired the download test, the download metric, if
\* expired the upload test, the upload metric; a failing test returns the
\* metrics gathered so far and the error.  A test that fails leaves the
\* server's speed as it was.
TestRound(st, k, expired, lastRun, out) ==
    LET s == st.targets[k]
        dlFails == expired /\ out.failing = 2 * k - 1
        ulFails == expired /\ out.failing = 2 * k
        afterDl == IF expired THEN [s EXCEPT !.DLSpeed = out.dl] ELSE s
        afterUl == IF expired THEN [afterDl EXCEPT !.ULSpeed = out.ul] ELSE afterDl
        ran == IF expired THEN 1 ELSE 0
        dlMetric == BwMetric("node_network_external_download_speed_bps",
                             s.ID, lastRun, afterDl.DLSpeed)
        ulMetric == BwMetric("node_network_external_upload_speed_bps",
                             s.ID, lastRun, afterUl.ULSpeed)
    IN  IF st.err # Nil THEN st
        ELSE IF dlFails
            THEN [st EXCEPT !.tests = @ + ran, !.err = "download test failed"]
        ELSE IF ulFails
            THEN [targets |-> [st.targets EXCEPT ![k] = afterDl],
                  metrics |-> Append(st.metrics, dlMetric),
                  tests |-> st.tests + 2 * ran,
                  err |-> "upload test failed"]
        ELSE [targets |-> [st.targets EXCEPT ![k] = afterUl],
              metrics |-> st.metrics \o <<dlMetric, ulMetric>>,
              tests |-> st.tests + 2 * ran,
              err |-> Nil]

\* lines 111-146: the loop from the k-th server on
RECURSIVE TestLoop(_, _, _, _, _)
TestLoop(st, k, expired, lastRun, out) ==
    IF k > Len(st.targets) THEN st
    ELSE TestLoop(TestRound(st, k, expired, lastRun, out), k + 1, expired,
                  lastRun, out)

\* a producer that takes the run for expired on every call
BwExpiredAlways(lastRun, t) == TRUE

\* line 86: expired := e.speedtestLastRun.IsZero() ||
\*            time.Now().After(e.speedtestLastRun.Add(speedtestValidity))
BwExpired(lastRun, t) == lastRun = ZeroTime \/ t > lastRun + speedtestValidity

\* what a getBandwidthMetrics call found, did and returned
BwLog(at, tgts, last, failed, disc, tests, metrics, err) ==
    [at |-> at, targetsBefore |-> tgts, lastRunBefore |-> last,
     failedBefore |-> failed, discovered |-> disc, tests |-> tests,
     metrics |-> metrics, err |-> err]

NoBwLog == BwLog(0, <<>>, ZeroTime, FALSE, FALSE, 0, <<>>, Nil)

\* getBandwidthMetrics, lines 85-147, called at time t, with the discovery
\* coming to disc if it is made and the tests to out if they are
getBandwidthMetrics(t, disc, out) ==
    LET expired == BwExpired(speedtestLastRun, t)
        discover == Len(speedtestTargets) = 0
        failedBefore == bwLog.tests > 0 /\ bwLog.err # Nil
    IN  /\ clock' = t
        /\ bwCalls' = bwCalls + 1
        /\ IF discover /\ disc.err # Nil
              THEN /\ bwLog' = BwLog(t, speedtestTargets, speedtestLastRun,
                                     failedBefore, TRUE, 0, <<>>, disc.err)
                   /\ UNCHANGED <<speedtestTargets, speedtestLastRun>>
              ELSE LET targets == IF discover THEN disc.servers ELSE speedtestTargets
                       lastRun == IF expired THEN t ELSE speedtestLastRun
                       st == TestLoop([targets |-> targets, metrics |-> <<>>,
                                       tests |-> 0, err |-> Nil],
                                      1, expired, lastRun, out)
                   IN  /\ speedtestTargets' = st.targets
                       /\ speedtestLastRun' = lastRun
                       /\ bwLog' = BwLog(t, speedtestTargets, speedtestLastRun,
                                         failedBefore, discover, st.tests,
                                         st.metrics, st.err)
    /\ UNCHANGED <<fns, env, status, pc, now, idx, wg, ch, closed, closer, wpc,
                   res, pending, w, ret, panicked, recv, pushed, calls, reqs,
                   refreshed, lastDisc, prevDisc, prevFailed, seen, callHist,
                   raceVars, upsVars>>

\* ------------------------------------------------------------- UPS client

\* The producer that uses the UPS client (getUpsStatsMetrics, #6 of e.fns)
\* is not among the sources.  Its use of the client is taken from the
\* design: it holds e.upsState.upsLock for the whole use, connects on the
\* first use, which sets the client's protocol version, and reuses the
\* connection afterwards.  Close is lines 147-153.

UpsUsers == 1 .. MaxUpsUsers

\* what Close read and did: the protocol version it read, whether the lock
\* was held when it came to line 149, whether it took the lock, the
\* Disconnect calls it made, and whether each was made on a connected
\* client, with the lock, and no other user inside
UpsLog(saw, waited, locked, disconnects, clean) ==
    [saw |-> saw, waited |-> waited, locked |-> locked,
     disconnects |-> disconnects, clean |-> clean]

NoUpsLog == UpsLog(Empty, FALSE, FALSE, 0, TRUE)

\* the rest of the model, which the UPS client's users leave alone
notUps == <<clock, fns, env, status, pc, now, idx, wg, ch, closed, closer, wpc,
            res, pending, w, ret, panicked, recv, pushed, calls, reqs,
            refreshed, lastDisc, prevDisc, prevFailed, seen, callHist,
            raceVars, bwVars>>

\* the producer takes the lock
UpsAcquire(u) ==
    /\ upsPc[u] = "none"
    /\ upsLock = "none"
    /\ upsLock' = "producer"
    /\ upsPc' = [upsPc EXCEPT ![u] = "locked"]
    /\ UNCHANGED <<upsVersion, closePc, upsLog, notUps>>

\* the producer connects if the client is not connected yet; the connection
\* is made (connected) or fails
UpsConnect(u, connected) ==
    /\ upsPc[u] = "locked"
    /\ upsVersion' = IF upsVersion = Empty /\ connected THEN "1.2" ELSE upsVersion
    /\ upsPc' = [upsPc EXCEPT ![u] = IF upsVersion' = Empty THEN "release" ELSE "query"]
    /\ UNCHANGED <<upsLock, closePc, upsLog, notUps>>

\* the producer queries the UPS over the connection
UpsQuery(u) ==
    /\ upsPc[u] = "query"
    /\ upsPc' = [upsPc EXCEPT ![u] = "release"]
    /\ UNCHANGED <<upsVersion, upsLock, closePc, upsLog, notUps>>

\* the producer releases the lock
UpsRelease(u) ==
    /\ upsPc[u] = "release"
    /\ upsLock' = "none"
    /\ upsPc' = [upsPc EXCEPT ![u] = "done"]
    /\ UNCHANGED <<upsVersion, closePc, upsLog, notUps>>

\* line 148: e.upsState.upsClient.ProtocolVersion != ""
NeedsDisconnect(version) == version # Empty

\* an upsLock.Lock() that returns though the lock is held
LockReturnsAtOnce(holder) == TRUE

\* line 149: e.upsState.upsLock.Lock() returns once nobody holds the lock
LockReturns(holder) == holder = "none"

\* line 148: Close reads the protocol version, without the lock: whatever a
\* producer connecting at the same time has or has not written yet
CloseCheck ==
    /\ closePc = "none"
    /\ closePc' = IF NeedsDisconnect(upsVersion) THEN "lock" ELSE "done"
    /\ upsLog' = [upsLog EXCEPT
                    !.saw = upsVersion,
                    !.waited = NeedsDisconnect(upsVersion) /\ upsLock # "none"]
    /\ UNCHANGED <<upsVersion, upsLock, upsPc, notUps>>

\* line 149: e.upsState.upsLock.Lock()
CloseLock ==
    /\ closePc = "lock"
    /\ LockReturns(upsLock)
    /\ upsLock' = "close"
    /\ closePc' = "disconnect"
    /\ upsLog' = [upsLog EXCEPT !.locked = TRUE]
    /\ UNCHANGED <<upsVersion, upsPc, notUps>>

\* line 150: _, _ = e.upsState.upsClient.Disconnect(); the client keeps its
\* protocol version
CloseDisconnect ==
    /\ closePc = "disconnect"
    /\ closePc' = "unlock"
    /\ upsLog' = [upsLog EXCEPT
                    !.disconnects = @ + 1,
                    !.clean = /\ @
                              /\ upsVersion # Empty
                              /\ upsLock = "close"
                              /\ \A u \in UpsUsers : upsPc[u] \in {"none", "done"}]
    /\ UNCHANGED <<upsVersion, upsLock, upsPc, notUps>>

\* line 151: e.upsState.upsLock.Unlock()
CloseUnlock ==
    /\ closePc = "unlock"
    /\ upsLock' = "none"
    /\ closePc' = "done"
    /\ UNCHANGED <<upsVersion, upsPc, upsLog, notUps>>

\* ------------------------------------------------------------------- Init

\* the exporter's status sink
NewStatus(attached, uptime) ==
    [attached |-> attached, Uptime |-> uptime, MetricCount |-> 0,
     LastFetch |-> 0, LastFetchDuration |-> 0, Devices |-> <<>>,
     Interfaces |-> <<>>]

Workers == 0 .. Len(fns) - 1

\* NewExporter at time 0, with a registry of n producers (the repository
\* registers 14; the registry's size is an input here) and no call running
InitWith(n) ==
    /\ clock = 0
    /\ fns = [k \in 1 .. n |-> k]
    /\ env = [NoEnv EXCEPT !.envExpiry = 0]
    /\ status = NewStatus(TRUE, 0)
    /\ pc = "idle"
    /\ now = 0
    /\ idx = 0
    /\ wg = 0
    /\ ch = <<>>
    /\ closed = FALSE
    /\ closer = "none"
    /\ wpc = [i \in 0 .. n - 1 |-> "none"]
    /\ res = [i \in 0 .. n - 1 |-> NoResult]
    /\ pending = [i \in 0 .. n - 1 |-> <<>>]
    /\ w = <<>>
    /\ ret = Nil
    /\ panicked = FALSE
    /\ recv = <<>>
    /\ pushed = [i \in 0 .. n - 1 |-> 0]
    /\ calls = [i \in 0 .. n - 1 |-> 0]
    /\ reqs = 0
    /\ refreshed = FALSE
    /\ lastDisc = -1
    /\ prevDisc = -1
    /\ prevFailed = {}
    /\ seen = [i \in 0 .. n - 1 |-> EnvRead(NoEnv)]
    /\ hostShown = NoHost
    /\ envBefore = NoEnv
    /\ cpc = [r \in Racers |-> "none"]
    /\ cinfo = [r \in Racers |-> <<>>]
    /\ cseen = [r \in Racers |-> <<>>]
    /\ cexpired = [r \in Racers |-> FALSE]
    /\ speedtestTargets = <<>>
    /\ speedtestLastRun = ZeroTime
    /\ bwCalls = 0
    /\ bwLog = NoBwLog
    /\ upsVersion = Empty
    /\ upsLock = "none"
    /\ closePc = "none"
    /\ upsPc = [u \in UpsUsers |-> "none"]
    /\ upsLog = NoUpsLog

\* ---------------------------------------------------------- WriteMetrics

\* the check with its sides exchanged: e.envExpiry.After(time.Now())
EnvExpiredInverted(t, e) == e.envExpiry > t

\* line 96: time.Now().After(e.envExpiry)
EnvExpired(t, e) == t > e.envExpiry

\* lines 88-106 up to the launch loop: the call at time t, on a host showing h
WriteMetricsBegin(t, h) ==
    /\ pc \in {"idle", "returned"}
    /\ ~panicked
    /\ t >= clock
    /\ clock' = t
    /\ now' = t
    /\ LET expired == EnvExpired(t, env)
           e2 == IF expired THEN readEnvironment(env, h) ELSE env
           s1 == IF status.attached
                    THEN [status EXCEPT !.MetricCount = 0, !.LastFetch = t]
                    ELSE status
           s2 == IF expired /\ status.attached
                    THEN [s1 EXCEPT !.Devices = e2.devices,
                                    !.Interfaces = e2.ifaces]
                    ELSE s1
       IN  /\ env' = e2
           /\ status' = s2
           /\ refreshed' = expired
           /\ prevDisc' = lastDisc
           /\ lastDisc' = IF expired THEN t ELSE lastDisc
           /\ hostShown' = h
           /\ envBefore' = env
    /\ wg' = 0
    /\ ch' = <<>>
    /\ closed' = FALSE
    /\ closer' = "none"
    /\ idx' = 0
    /\ wpc' = [i \in Workers |-> "none"]
    /\ res' = [i \in Workers |-> NoResult]
    /\ pending' = [i \in Workers |-> <<>>]
    /\ pushed' = [i \in Workers |-> 0]
    /\ seen' = [i \in Workers |-> EnvRead(NoEnv)]
    /\ w' = <<>>
    /\ recv' = <<>>
    /\ reqs' = reqs + 1
    /\ prevFailed' = {i \in Workers : res[i].err # Nil}
    /\ pc' = "launch"
    /\ UNCHANGED <<fns, ret, panicked, calls, layers>>

\* a launch loop that stops one producer short
LoopDoneEarly(i, registry) == i >= Len(registry) - 1

\* line 102: for idx, fn := range e.fns has visited every producer
LoopDone(i, registry) == i >= Len(registry)

\* lines 102-106: wg.Add(1); go fetchMetricsWorker(&wg, metricsCh, idx, fn)
Launch ==
    /\ pc = "launch"
    /\ ~panicked
    /\ ~LoopDone(idx, fns)
    /\ wg' = wg + 1
    /\ wpc' = [wpc EXCEPT ![idx] = "call"]
    /\ idx' = idx + 1
    /\ UNCHANGED <<clock, fns, env, status, pc, now, ch, closed, closer, res,
                   pending, w, ret, panicked, recv, pushed, calls, reqs,
                   refreshed, lastDisc, prevDisc, prevFailed, seen, callHist, layers>>

\* lines 108-112: go func() { wg.Wait(); close(metricsCh) }(), after the loop
StartCloser ==
    /\ pc = "launch"
    /\ ~panicked
    /\ LoopDone(idx, fns)
    /\ closer' = "wait"
    /\ pc' = "drain"
    /\ UNCHANGED <<clock, fns, env, status, now, idx, wg, ch, closed, wpc, res,
                   pending, w, ret, panicked, recv, pushed, calls, reqs,
                   refreshed, lastDisc, prevDisc, prevFailed, seen, callHist, layers>>

\* a closing goroutine that does not wait for the workers
WaitReturnsAtOnce(counter) == TRUE

\* line 110: wg.Wait() returns once the counter is zero
WaitReturns(counter) == counter = 0

\* lines 110-111: the closing goroutine
CloserClose ==
    /\ closer = "wait"
    /\ ~panicked
    /\ WaitReturns(wg)
    /\ closed' = TRUE
    /\ closer' = "done"
    /\ UNCHANGED <<clock, fns, env, status, pc, now, idx, wg, ch, wpc, res,
                   pending, w, ret, panicked, recv, pushed, calls, reqs,
                   refreshed, lastDisc, prevDisc, prevFailed, seen, callHist, layers>>

\* a drain loop that gives up at the first error: it returns the error
\* instead of writing the diagnostic line and going on
HandleMessageAbort(hostname, m) ==
    IF m.type = "metrics"
        THEN [lines |-> WriteBatch(hostname, m.metrics),
              count |-> Len(m.metrics), pc |-> "drain", ret |-> Nil]
        ELSE [lines |-> <<>>, count |-> 0, pc |-> "returned", ret |-> m.cause]

\* a drain loop that counts the batches, not their metrics
HandleMessageCountsBatches(hostname, m) ==
    IF m.type = "metrics"
        THEN [lines |-> WriteBatch(hostname, m.metrics),
              count |-> 1, pc |-> "drain", ret |-> Nil]
        ELSE [lines |-> <<ErrorLine(m.ord, m.cause)>>,
              count |-> 0, pc |-> "drain", ret |-> Nil]

\* lines 116-129: what the drain loop does with message m: the lines it
\* writes, what it adds to the metric count, and where it goes on
HandleMessage(hostname, m) ==
    IF m.type = "metrics"
        THEN [lines |-> WriteBatch(hostname, m.metrics),
              count |-> Len(m.metrics), pc |-> "drain", ret |-> Nil]
        ELSE [lines |-> <<ErrorLine(m.ord, m.cause)>>,
              count |-> 0, pc |-> "drain", ret |-> Nil]

\* line 115: for m := range metricsCh, one message received and handled
Drain ==
    /\ pc = "drain"
    /\ ~panicked
    /\ ch # <<>>
    /\ LET m == Head(ch)
           h == HandleMessage(env.hostname, m)
       IN  /\ ch' = Tail(ch)
           /\ recv' = Append(recv, m)
           /\ w' = w \o h.lines
           /\ status' = IF status.attached
                           THEN [status EXCEPT !.MetricCount = @ + h.count]
                           ELSE status
           /\ pc' = h.pc
           /\ ret' = h.ret
    /\ UNCHANGED <<clock, fns, env, now, idx, wg, closed, closer, wpc, res,
                   pending, panicked, calls, pushed, reqs, refreshed, lastDisc,
                   prevDisc, prevFailed, seen, callHist, layers>>

\* a drain loop that ends as soon as it finds the buffer empty (a receive
\* that does not block)
RangeEndsOnEmpty(buffer, isClosed) == buffer = <<>>

\* line 115: for m := range metricsCh ends once the channel is closed and
\* its buffer is empty
RangeEnds(buffer, isClosed) == buffer = <<>> /\ isClosed

\* a WriteMetrics that returns the first error it received
ReturnValueFirstError(received) ==
    LET errs == {p \in DOMAIN received : received[p].type = "error"}
    IN  IF errs = {} THEN Nil
        ELSE received[CHOOSE p \in errs : \A q \in errs : p <= q].cause

\* line 132: return nil, whatever was received
ReturnValue(received) == Nil

\* lines 115, 132 and 91-93: the loop ends and WriteMetrics returns
DrainEnd ==
    /\ pc = "drain"
    /\ ~panicked
    /\ RangeEnds(ch, closed)
    /\ pc' = "returned"
    /\ ret' = ReturnValue(recv)
    /\ status' = IF status.attached
                    THEN [status EXCEPT !.LastFetchDuration = clock - status.LastFetch]
                    ELSE status
    /\ UNCHANGED <<clock, fns, env, now, idx, wg, ch, closed, closer, wpc, res,
                   pending, w, panicked, recv, pushed, calls, reqs, refreshed,
                   lastDisc, prevDisc, prevFailed, seen, callHist, layers>>

\* ---------------------------------------------------- fetchMetricsWorker

\* The deferred wg.Done() of line 136 runs when the worker returns, and the
\* worker returns right after its send (lines 141 and 145): the last send and
\* the Done are one step.  Done only lowers the counter the closing goroutine
\* waits for; no worker and no step of the drain loop reads it.

\* line 138: metrics, err := fetchMetricsFn(), the producer returning r
FetchCall(i, r) ==
    /\ wpc[i] = "call"
    /\ ~panicked
    /\ res' = [res EXCEPT ![i] = r]
    /\ calls' = [calls EXCEPT ![i] = @ + 1]
    /\ seen' = [seen EXCEPT ![i] = EnvRead(env)]
    /\ LET sends == WorkerSends(i, r)
       IN  /\ pending' = [pending EXCEPT ![i] = sends]
           /\ wpc' = [wpc EXCEPT ![i] = IF sends = <<>> THEN "done" ELSE "send"]
           /\ wg' = IF sends = <<>> THEN wg - 1 ELSE wg
    /\ UNCHANGED <<clock, fns, env, status, pc, now, idx, ch, closed,
                   closer, w, ret, panicked, recv, pushed, reqs, refreshed,
                   lastDisc, prevDisc, prevFailed, callHist, layers>>

\* lines 140 and 144: metricsCh <- ..., which blocks while the buffer is full
\* and panics when the channel is closed; then return, and the deferred
\* wg.Done() of line 136
WorkerSend(i) ==
    /\ wpc[i] = "send"
    /\ ~panicked
    /\ closed \/ Len(ch) < ChanCap
    /\ IF closed
          THEN /\ panicked' = TRUE
               /\ UNCHANGED <<ch, pending, pushed, wpc, wg>>
          ELSE /\ ch' = Append(ch, Head(pending[i]))
               /\ pending' = [pending EXCEPT ![i] = Tail(@)]
               /\ pushed' = [pushed EXCEPT ![i] = @ + 1]
               /\ wpc' = [wpc EXCEPT
                            ![i] = IF Tail(pending[i]) = <<>> THEN "done" ELSE "send"]
               /\ wg' = IF Tail(pending[i]) = <<>> THEN wg - 1 ELSE wg
               /\ UNCHANGED panicked
    /\ UNCHANGED <<clock, fns, env, status, pc, now, idx, closed, closer,
                   res, w, ret, recv, calls, reqs, refreshed,
                   lastDisc, prevDisc, prevFailed, seen, callHist, layers>>

\* ------------------------------------------- concurrent WriteMetrics calls

\* Several goroutines call WriteMetrics on the one exporter (one per scrape
\* being served).  Nothing in WriteMetrics or readEnvironment takes a lock,
\* so the statements of readEnvironment that write the exporter's fields
\* interleave; each such statement is one step.  Of each call this part
\* follows the check of line 96, readEnvironment, and the read of e.ifaces by
\* the call's getNetworkStatsMetrics worker.

\* the fields of the other parts of the model, which a concurrent call leaves
\* alone
callVars == <<fns, pc, now, idx, wg, ch, closed, closer, wpc, res, pending, w,
              ret, panicked, recv, pushed, calls, reqs, refreshed, lastDisc,
              prevDisc, prevFailed, seen, callHist>>

\* lines 88-98: call r starts at time t, resets the status and finds the
\* environment expired or not
RaceCheck(r, t) ==
    /\ cpc[r] = "none"
    /\ clock' = t
    /\ status' = IF status.attached
                    THEN [status EXCEPT !.MetricCount = 0, !.LastFetch = t]
                    ELSE status
    /\ cexpired' = [cexpired EXCEPT ![r] = EnvExpired(t, env)]
    /\ cpc' = [cpc EXCEPT ![r] = IF EnvExpired(t, env) THEN "tools" ELSE "launch"]
    /\ UNCHANGED <<env, cinfo, cseen, callVars, bwVars, upsVars>>

\* lines 159-193: the hostname, the tool paths and the sensor counts
RaceTools(r, h) ==
    /\ cpc[r] = "tools"
    /\ LET e == readEnvironment(env, h)
       IN  env' = [env EXCEPT !.hostname = e.hostname, !.iostat = e.iostat,
                              !.getsysinfo = e.getsysinfo,
                              !.syshdnum = e.syshdnum, !.sysfannum = e.sysfannum]
    /\ cpc' = [cpc EXCEPT ![r] = "netDir"]
    /\ UNCHANGED <<clock, status, cinfo, cseen, cexpired, callVars, bwVars, upsVars>>

\* lines 195-196: info, _ := ioutil.ReadDir(netDir);
\* e.ifaces = make([]string, 0, len(info))
RaceMakeIfaces(r, h) ==
    /\ cpc[r] = "netDir"
    /\ cinfo' = [cinfo EXCEPT ![r] = h.netDir]
    /\ env' = [env EXCEPT !.ifaces = <<>>]
    /\ cpc' = [cpc EXCEPT ![r] = IF h.netDir = <<>> THEN "devDir" ELSE "ifaces"]
    /\ UNCHANGED <<clock, status, cseen, cexpired, callVars, bwVars, upsVars>>

\* lines 197-204: one round of the loop, e.ifaces = append(e.ifaces, iface)
\* for an entry the loop keeps
RaceIface(r) ==
    /\ cpc[r] = "ifaces"
    /\ LET d == Head(cinfo[r])
       IN  env' = IF IsIface(d) THEN [env EXCEPT !.ifaces = Append(@, d.name)]
                                ELSE env
    /\ cinfo' = [cinfo EXCEPT ![r] = Tail(@)]
    /\ cpc' = [cpc EXCEPT ![r] = IF Tail(cinfo[r]) = <<>> THEN "devDir" ELSE "ifaces"]
    /\ UNCHANGED <<clock, status, cseen, cexpired, callVars, bwVars, upsVars>>

\* lines 206-207: info, _ = ioutil.ReadDir(devDir);
\* e.devices = make([]string, 0, len(info))
RaceMakeDevices(r, h) ==
    /\ cpc[r] = "devDir"
    /\ cinfo' = [cinfo EXCEPT ![r] = h.devDir]
    /\ env' = [env EXCEPT !.devices = <<>>]
    /\ cpc' = [cpc EXCEPT ![r] = IF h.devDir = <<>> THEN "expiry" ELSE "devices"]
    /\ UNCHANGED <<clock, status, cseen, cexpired, callVars, bwVars, upsVars>>

\* lines 208-221: one round of the loop, e.devices = append(e.devices, dev)
\* for an entry the loop keeps
RaceDevice(r) ==
    /\ cpc[r] = "devices"
    /\ LET d == Head(cinfo[r])
       IN  env' = IF IsDevice(d) THEN [env EXCEPT !.devices = Append(@, d.name)]
                                 ELSE env
    /\ cinfo' = [cinfo EXCEPT ![r] = Tail(@)]
    /\ cpc' = [cpc EXCEPT ![r] = IF Tail(cinfo[r]) = <<>> THEN "expiry" ELSE "devices"]
    /\ UNCHANGED <<clock, status, cseen, cexpired, callVars, bwVars, upsVars>>

\* lines 224-229: e.envExpiry = e.envExpiry.Add(envValidity), and the lists
\* copied to the status
RaceExpiry(r) ==
    /\ cpc[r] = "expiry"
    /\ env' = [env EXCEPT !.envExpiry = @ + envValidity]
    /\ status' = IF status.attached
                    THEN [status EXCEPT !.Devices = env.devices,
                                        !.Interfaces = env.ifaces]
                    ELSE status
    /\ cpc' = [cpc EXCEPT ![r] = "launch"]
    /\ UNCHANGED <<clock, cinfo, cseen, cexpired, callVars, bwVars, upsVars>>

\* lines 100-106 and network.go lines 18-19: the call's workers are launched
\* and its getNetworkStatsMetrics reads e.ifaces for its loop
RaceRead(r) ==
    /\ cpc[r] = "launch"
    /\ cseen' = [cseen EXCEPT ![r] = env.ifaces]
    /\ cpc' = [cpc EXCEPT ![r] = "read"]
    /\ UNCHANGED <<clock, env, status, cinfo, cexpired, callVars, bwVars, upsVars>>

\* ---------------------------------------------------------- specifications

\* the steps of the goroutines of a running call, but for the producers'
\* returns
Goroutines ==
    \/ Launch
    \/ StartCloser
    \/ CloserClose
    \/ Drain
    \/ DrainEnd
    \/ \E i \in Workers : WorkerSend(i)

\* The fan-in specification: one WriteMetrics call, one second after the
\* exporter was made, over every registry of up to MaxFns producers.
Init == \E n \in 0 .. MaxFns : InitWith(n)

Next ==
    \/ reqs < 1 /\ WriteMetricsBegin(clock + 1, HostOk)
    \/ \E i \in Workers : \E r \in FanInResults(fns[i + 1]) : FetchCall(i, r)
    \/ Goroutines

Spec == Init /\ [][Next]_vars

\* The goroutines of a call: the one that runs WriteMetrics, the one that
\* closes the channel, and worker i, whose producer returns and which then
\* sends.
MainGoroutine == Launch \/ StartCloser \/ Drain \/ DrainEnd

CloserGoroutine == CloserClose

WorkerGoroutine(i) ==
    /\ i \in Workers
    /\ \/ \E r \in LiveResults(fns[i + 1]) : FetchCall(i, r)
       \/ WorkerSend(i)

\* The scheduling of the Go runtime, which lets every goroutine that can
\* take a step take one in the end, with producers that all return in the
\* end.
Fairness ==
    /\ WF_vars(MainGoroutine)
    /\ WF_vars(CloserGoroutine)
    /\ \A i \in 0 .. MaxFns - 1 : WF_vars(WorkerGoroutine(i))

\* The termination specification: one WriteMetrics call over every registry
\* of up to MaxFns producers, under that scheduling.
InitLive == \E n \in 0 .. MaxFns : InitWith(n)

NextLive ==
    \/ reqs < 1 /\ WriteMetricsBegin(clock + 1, HostOk)
    \/ \E i \in Workers : \E r \in LiveResults(fns[i + 1]) : FetchCall(i, r)
    \/ Goroutines

SpecLive == InitLive /\ [][NextLive]_vars /\ Fairness

\* The rendering specification: one WriteMetrics call over up to MaxFnsSmall
\* producers that return every list of up to MaxMetrics metrics, with and
\* without help and type, or fail.
InitRender == \E n \in 0 .. MaxFnsSmall : InitWith(n)

NextRender ==
    \/ reqs < 1 /\ WriteMetricsBegin(clock + 1, HostOk)
    \/ \E i \in Workers : \E r \in RenderResults(fns[i + 1]) : FetchCall(i, r)
    \/ Goroutines

SpecRender == InitRender /\ [][NextRender]_vars

\* The sequential specification: up to MaxRequests WriteMetrics calls, one
\* after the other, at times the clock reaches by steps of Deltas seconds, on
\* hosts where the lookups succeed or fail.
Deltas == {1, 299, 300, 301, 700}

InitSeq == \E n \in 0 .. MaxFnsSmall : InitWith(n)

NextSeq ==
    \/ /\ reqs < MaxRequests
       /\ \E d \in Deltas : \E h \in {HostOk, HostFailing} :
              WriteMetricsBegin(clock + d, h)
    \/ \E i \in Workers : \E r \in SeqResults(fns[i + 1]) : FetchCall(i, r)
    \/ Goroutines

SpecSeq == InitSeq /\ [][NextSeq]_vars

\* The counting specification: up to MaxRequests WriteMetrics calls, one
\* after the other and a second apart, over up to MaxFnsSmall producers that
\* return lists of different lengths.
InitCount == \E n \in 0 .. MaxFnsSmall : InitWith(n)

NextCount ==
    \/ reqs < MaxRequests /\ WriteMetricsBegin(clock + 1, HostOk)
    \/ \E i \in Workers : \E r \in CountResults(fns[i + 1]) : FetchCall(i, r)
    \/ Goroutines

SpecCount == InitCount /\ [][NextCount]_vars

\* The discovery specification: WriteMetrics calls of an exporter with one
\* producer, each after the expiry, on a host that shows the same directory
\* to every call.
InitEnv == InitWith(1)

NextEnv ==
    \/ /\ reqs = 0
       /\ \E h \in EnvHosts : WriteMetricsBegin(clock + envValidity + 1, h)
    \/ /\ reqs \in 1 .. MaxRequests - 1
       /\ WriteMetricsBegin(clock + envValidity + 1, hostShown)
    \/ \E i \in Workers : \E r \in SeqResults(fns[i + 1]) : FetchCall(i, r)
    \/ Goroutines

SpecEnv == InitEnv /\ [][NextEnv]_vars

\* The bandwidth specification: up to MaxBwCalls calls of
\* getBandwidthMetrics, one after the other, at times the clock reaches by
\* steps of BwDeltas seconds.
BwDeltas == {1, 3599, 3601}

InitBw == InitWith(0)

NextBw ==
    /\ bwCalls < MaxBwCalls
    /\ \E d \in BwDeltas : \E disc \in Discoveries :
          \E out \in Measurements(IF speedtestTargets = <<>> THEN disc.servers
                                                              ELSE speedtestTargets) :
              getBandwidthMetrics(clock + d, disc, out)

SpecBw == InitBw /\ [][NextBw]_vars

\* The UPS specification: Close, once, while up to MaxUpsUsers goroutines
\* use the UPS client, each once, their connections made or failing.
InitUps == InitWith(0)

NextUps ==
    \/ CloseCheck
    \/ CloseLock
    \/ CloseDisconnect
    \/ CloseUnlock
    \/ \E u \in UpsUsers :
          \/ UpsAcquire(u)
          \/ \E connected \in BOOLEAN : UpsConnect(u, connected)
          \/ UpsQuery(u)
          \/ UpsRelease(u)

SpecUps == InitUps /\ [][NextUps]_vars

\* The racing specification: MaxRacers WriteMetrics calls on one exporter,
\* made at time 0, that start one second after another and run at the same
\* time, on a host that shows the same to each of them.
InitRace == InitWith(0)

NextRace ==
    \E r \in Racers :
        \/ RaceCheck(r, clock + 1)
        \/ RaceTools(r, HostOk)
        \/ RaceMakeIfaces(r, HostOk)
        \/ RaceIface(r)
        \/ RaceMakeDevices(r, HostOk)
        \/ RaceDevice(r)
        \/ RaceExpiry(r)
        \/ RaceRead(r)

SpecRace == InitRace /\ [][NextRace]_vars


\* ------------------------------------------------------------- properties

Returned == pc = "returned"

Failed(i) == res[i].err # Nil

\* the worker's producer has returned in the running call
HasReturned(i) == wpc[i] \in {"send", "done"}

\* the number of places of sequence q that satisfy a test
CountErrors(q) == Cardinality({p \in DOMAIN q : q[p].type = "error"})

CountBatches(q) == Cardinality({p \in DOMAIN q : q[p].type = "metrics"})

\* the places of the response that hold the value line of metric m
ValuePlaces(m) ==
    {p \in DOMAIN w : /\ w[p].kind = "value"
                      /\ w[p].name = m.name
                      /\ w[p].attr = m.attr
                      /\ w[p].num = m.value}

\* the places of the response that hold a diagnostic line of ordinal n
DiagPlaces(n) == {p \in DOMAIN w : w[p].kind = "##" /\ w[p].num = n}

\* the producer (1-based) a metric value comes from
Owner(value) == value \div 10

\* C1: when WriteMetrics has returned, the drain loop has received as many
\* messages, errors and batches together, as there are producers; every
\* producer pushed exactly one: a failing one its error and none of its
\* metrics, a succeeding one its batch and no error.
C1_OneMessagePerProducer ==
    /\ \A i \in Workers : pushed[i] <= 1
    /\ Returned =>
        /\ CountErrors(recv) + CountBatches(recv) = Len(fns)
        /\ Len(recv) = Len(fns)
        /\ \A i \in Workers :
            /\ pushed[i] = 1
            /\ Failed(i) =>
                /\ Cardinality({p \in DOMAIN recv :
                        /\ recv[p].type = "error"
                        /\ recv[p].ord = i + 1
                        /\ recv[p].cause = res[i].err}) = 1
                /\ \A p \in DOMAIN recv : \A j \in DOMAIN recv[p].metrics :
                        Owner(recv[p].metrics[j].value) # i + 1
            /\ ~Failed(i) =>
                /\ Cardinality({p \in DOMAIN recv :
                        /\ recv[p].type = "metrics"
                        /\ recv[p].metrics = res[i].metrics}) = 1
                /\ \A p \in DOMAIN recv :
                        recv[p].type = "error" => recv[p].ord # i + 1

\* a call over more producers than the channel holds has returned; some
\* producers failed, one of them with metrics in hand, and some succeeded
C1_Witness ==
    /\ Returned
    /\ Len(fns) > ChanCap
    /\ \E i, j \in Workers :
        /\ Failed(i) /\ res[i].metrics # <<>>
        /\ ~Failed(j)
    /\ CountErrors(recv) >= 2
    /\ CountBatches(recv) >= 2

\* C2: every metric list the drain loop has received is in the response,
\* each metric's value line once, whatever the other producers have done so
\* far; and when WriteMetrics has returned, that holds of the list of every
\* producer that returned one.
C2_OthersNeverSuppress ==
    /\ \A p \in DOMAIN recv : \A j \in DOMAIN recv[p].metrics :
            Cardinality(ValuePlaces(recv[p].metrics[j])) = 1
    /\ Returned =>
        \A i \in Workers : ~Failed(i) =>
            \A j \in DOMAIN res[i].metrics :
                Cardinality(ValuePlaces(res[i].metrics[j])) = 1

\* the metrics of one producer are in the response while another producer
\* has failed and a third has not returned yet
C2_Witness ==
    /\ pc = "drain"
    /\ \E i, j, k \in Workers :
        /\ HasReturned(i) /\ ~Failed(i) /\ res[i].metrics # <<>>
        /\ \A n \in DOMAIN res[i].metrics :
                Cardinality(ValuePlaces(res[i].metrics[n])) = 1
        /\ HasReturned(j) /\ Failed(j) /\ DiagPlaces(j + 1) # {}
        /\ wpc[k] = "call"

\* C3: no send ever meets a closed channel; the channel is closed only when
\* every producer has been launched and every worker has pushed its message
\* and is done; and WriteMetrics returns only with the channel closed and
\* empty and no worker running or blocked on its send.
C3_CloseAfterAllDelivered ==
    /\ ~panicked
    /\ pc # "idle" /\ closed =>
        /\ idx = Len(fns)
        /\ \A i \in Workers : wpc[i] = "done" /\ pushed[i] = 1
    /\ Returned =>
        /\ closed
        /\ ch = <<>>
        /\ \A i \in Workers : wpc[i] = "done"

\* the channel of a call over more producers than it holds is closed, with
\* messages still in the buffer for the drain loop to receive
C3_Witness ==
    /\ closed
    /\ pc = "drain"
    /\ Len(fns) > ChanCap
    /\ ch # <<>>
    /\ \A i \in Workers : wpc[i] = "done"

\* C4: every diagnostic line of the response is the line of a producer that
\* failed, with that producer's 1-based place in the registry and its cause;
\* when WriteMetrics has returned, the response holds exactly one such line
\* for every producer that failed and none for the others.  With two
\* producers, the first returning 2 metrics and the second failing with
\* "connection refused", the response has 2 value lines and the line of #2.
C4_DiagnosticLineOrdinal ==
    /\ \A p \in DOMAIN w : w[p].kind = "##" =>
        /\ w[p].name = "retrieve metric #"
        /\ w[p].num \in 1 .. Len(fns)
        /\ HasReturned(w[p].num - 1)
        /\ res[w[p].num - 1].err = w[p].text
    /\ Returned =>
        /\ \A i \in Workers :
            Cardinality(DiagPlaces(i + 1)) = IF Failed(i) THEN 1 ELSE 0
        /\ ( /\ Len(fns) = 2
             /\ ~Failed(0) /\ Len(res[0].metrics) = 2
             /\ res[1].err = "connection refused" )
           =>
           /\ Cardinality({p \in DOMAIN w : w[p].kind = "value"}) = 2
           /\ Cardinality({p \in DOMAIN w : w[p].kind = "##"}) = 1
           /\ \E p \in DOMAIN w :
                /\ w[p].kind = "##"
                /\ w[p].num = 2
                /\ w[p].text = "connection refused"

\* the scenario's call has returned, and the error of the second producer
\* arrived before the metrics of the first
C4_Witness ==
    /\ Returned
    /\ Len(fns) = 2
    /\ ~Failed(0) /\ Len(res[0].metrics) = 2
    /\ res[1].err = "connection refused"
    /\ w[1].kind = "##" /\ w[1].num = 2
    /\ Len(w) >= 3

\* the producer (1-based) the line at place p of the response belongs to: a
\* diagnostic line to the producer it names, a value line to the producer of
\* its metric, a metadata line to the producer of the next value line
LineOwner(p) ==
    IF w[p].kind = "##" THEN w[p].num
    ELSE LET after == {q \in p .. Len(w) : w[q].kind = "value"}
         IN  IF after = {} THEN 0
             ELSE Owner(w[CHOOSE q \in after : \A q2 \in after : q <= q2].num)

\* the metric values of the response's value lines, in order
ValuesWritten ==
    LET IsValue(line) == line.kind = "value"
        lines == SelectSeq(w, IsValue)
    IN  [p \in DOMAIN lines |-> lines[p].num]

\* C9: the lines of one producer are one block of the response: no line of
\* another producer lies between two of them; the block's value lines are
\* the producer's metrics in the order it returned them; and the blocks
\* follow one another in the order the drain loop received them.
C9_BatchesContiguousInOrder ==
    /\ \A p, q, r \in DOMAIN w :
        (p < q /\ q < r /\ LineOwner(p) = LineOwner(r)) =>
            LineOwner(q) = LineOwner(p)
    /\ \A i \in Workers :
        LET IsMine(v) == Owner(v) = i + 1
            mine == SelectSeq(ValuesWritten, IsMine)
        IN  mine # <<>> =>
                /\ HasReturned(i)
                /\ mine = [j \in DOMAIN res[i].metrics |-> res[i].metrics[j].value]
    /\ ValuesWritten =
        Flatten([p \in DOMAIN recv |->
                    [j \in DOMAIN recv[p].metrics |-> recv[p].metrics[j].value]])

\* two producers returned metrics, the second in the registry a list of
\* two; its block stands before the first producer's in the response
C9_Witness ==
    /\ Returned
    /\ Len(fns) = 2
    /\ Len(res[0].metrics) >= 1
    /\ Len(res[1].metrics) = 2
    /\ ValuesWritten = <<21, 22, 11>>

\* the metric a value belongs to, among the results of the producers
MetricOf(value) ==
    LET all == UNION {{res[i].metrics[j] : j \in DOMAIN res[i].metrics} :
                        i \in Workers}
    IN  CHOOSE m \in all : m.value = value

\* the number of metadata lines metric m is due
MetaDue(m) ==
    (IF m.help # Empty THEN 1 ELSE 0) + (IF m.metricType # Empty THEN 1 ELSE 0)

\* C10: before the value line of every metric stand, with nothing between,
\* its # HELP line if its help is not empty and then its # TYPE line if its
\* type is not empty, and before those no further metadata line; the response
\* holds no other metadata line, so metrics that share a name each have
\* their own.
C10_MetadataBeforeValue ==
    /\ \A p \in DOMAIN w : w[p].kind = "value" =>
        LET m == MetricOf(w[p].num)
            k == MetaDue(m)
            typeAt == p - 1
            helpAt == IF m.metricType # Empty THEN p - 2 ELSE p - 1
        IN  /\ p > k
            /\ m.metricType # Empty =>
                /\ w[typeAt].kind = "# TYPE"
                /\ w[typeAt].name = m.name
                /\ w[typeAt].text = m.metricType
            /\ m.help # Empty =>
                /\ w[helpAt].kind = "# HELP"
                /\ w[helpAt].name = m.name
                /\ w[helpAt].text = m.help
            /\ p - k > 1 => w[p - k - 1].kind \in {"value", "##"}
    /\ Cardinality({p \in DOMAIN w : w[p].kind \in {"# HELP", "# TYPE"}})
        = SeqSum([p \in DOMAIN ValuesWritten |-> MetaDue(MetricOf(ValuesWritten[p]))])
    /\ Len(w) >= 1 => w[Len(w)].kind \in {"value", "##"}

\* the response holds two metrics of one name, each with its own # HELP and
\* # TYPE line, and a metric with neither
C10_Witness ==
    /\ Returned
    /\ \E p, q \in DOMAIN w :
        /\ p + 3 = q
        /\ w[p].kind = "value" /\ w[q].kind = "value"
        /\ w[p].name = w[q].name
        /\ w[p + 1].kind = "# HELP" /\ w[p + 2].kind = "# TYPE"
        /\ p > 2 /\ w[p - 2].kind = "# HELP" /\ w[p - 1].kind = "# TYPE"
    /\ \E p \in DOMAIN w :
        /\ w[p].kind = "value"
        /\ MetaDue(MetricOf(w[p].num)) = 0

\* C5: a call that ran readEnvironment leaves the expiry at its own request
\* time plus envValidity.
C5_ExpiryAnchoredToRequest ==
    (pc # "idle" /\ refreshed) => env.envExpiry = now + envValidity

\* C6: a call within envValidity of the latest discovery runs no discovery,
\* and a call later than that runs one.
C6_OneDiscoveryPerWindow ==
    (pc # "idle" /\ prevDisc >= 0) =>
        /\ now <= prevDisc + envValidity => ~refreshed
        /\ now > prevDisc + envValidity => refreshed

\* C7: over any number of calls, every producer has been invoked once per
\* call: as often as calls were started once it has returned in the running
\* call, one less before; so when a call has returned every producer was
\* invoked in it exactly once, the producers that failed in the call before
\* included.
C7_EveryProducerOncePerCall ==
    /\ \A i \in Workers :
        calls[i] = IF pc = "idle" THEN 0
                   ELSE IF HasReturned(i) THEN reqs ELSE reqs - 1
    /\ Returned => \A i \in Workers : calls[i] = reqs

\* the second call has returned; a producer that failed in the first call
\* was invoked again in the second
C7_Witness ==
    /\ Returned
    /\ reqs = 2
    /\ \E i \in Workers : i \in prevFailed /\ calls[i] = 2 /\ ~Failed(i)
    /\ \E i \in Workers : i \in prevFailed /\ calls[i] = 2 /\ Failed(i)

\* C8: WriteMetrics never returns an error; it returns only when it has
\* received the message of every producer, and then the response holds the
\* value line of every metric of every producer that succeeded and the
\* diagnostic line of every producer that failed, whether or not the
\* discovery of that call failed.
C8_FailuresNeverAbort ==
    /\ ret = Nil
    /\ Returned =>
        /\ Len(recv) = Len(fns)
        /\ \A i \in Workers :
            /\ HasReturned(i)
            /\ ~Failed(i) =>
                \A j \in DOMAIN res[i].metrics :
                    Cardinality(ValuePlaces(res[i].metrics[j])) = 1
            /\ Failed(i) => DiagPlaces(i + 1) # {}

\* a call whose discovery found nothing (no hostname, no tool, no device, no
\* interface) and all of whose producers failed has returned nil
C8_Witness ==
    /\ Returned
    /\ ret = Nil
    /\ refreshed
    /\ env.hostname = Empty /\ env.getsysinfo = Empty
    /\ env.devices = <<>> /\ env.ifaces = <<>>
    /\ Len(fns) = 2
    /\ \A i \in Workers : Failed(i)
    /\ Len(w) = 2

\* the concurrent calls that ran readEnvironment
Refreshers == {r \in Racers : cexpired[r]}

\* a concurrent call's worker has read e.ifaces
HasRead(r) == cpc[r] = "read"

\* the state of the environment cache after one run of readEnvironment on
\* the exporter as NewExporter made it
OneRefresh(h) == readEnvironment(NoEnv, h)

\* C11: the interface list a call's producer reads is a whole one, the list
\* a rebuild leaves, whatever the other calls are doing: never a list that a
\* rebuild in progress has reset and not yet filled again.
C11_NoPartialSnapshot ==
    \A r \in Racers : HasRead(r) => cseen[r] = OneRefresh(HostOk).ifaces

\* C12: when every call is through with the environment and more than one
\* of them ran readEnvironment on the same expired cache, the cache is as one
\* run leaves it: the expiry one envValidity ahead, every device and
\* interface once.
C12_RacingRefreshIdempotent ==
    ( /\ \A r \in Racers : cpc[r] \in {"launch", "read"}
      /\ Cardinality(Refreshers) >= 2 )
    => /\ env.envExpiry = OneRefresh(HostOk).envExpiry
       /\ env.ifaces = OneRefresh(HostOk).ifaces
       /\ env.devices = OneRefresh(HostOk).devices

\* the names of a sequence of directory entries, in its order
Names(entries) == [p \in DOMAIN entries |-> entries[p].name]

\* the name starts with "eth"
EthName(d) ==
    Len(d.name) >= 3 /\ d.name[1] = "e" /\ d.name[2] = "t" /\ d.name[3] = "h"

\* the name is "nvme" and three more characters, or "sd" and one more
DeviceName(d) ==
    \/ /\ Len(d.name) = 7
       /\ <<d.name[1], d.name[2], d.name[3], d.name[4]>> = <<"n", "v", "m", "e">>
    \/ /\ Len(d.name) = 3
       /\ <<d.name[1], d.name[2]>> = <<"s", "d">>

\* a device name on an entry that is not a directory
DeviceFile(d) == DeviceName(d) /\ ~d.isDir

\* C13 as claimed: after a refresh the device list is the entries with a
\* device name and the interface list the entries with an "eth" name, both
\* in the order of the directory.
C13_ListsAreTheQualifyingEntries ==
    (pc # "idle" /\ refreshed) =>
        /\ env.devices = Names(SelectSeq(hostShown.devDir, DeviceName))
        /\ env.ifaces = Names(SelectSeq(hostShown.netDir, EthName))

\* C13 as amended: after a refresh the device list is the entries that are
\* not directories and have a device name, the interface list the entries
\* with an "eth" name, both in the order of the directory; for the entries
\* nvme0n1, nvme0n1p1, sda, sdaa, eth0, lo the devices are nvme0n1 and sda and
\* the interfaces eth0.
C13_ListsAreTheQualifyingFiles ==
    (pc # "idle" /\ refreshed) =>
        /\ env.devices = Names(SelectSeq(hostShown.devDir, DeviceFile))
        /\ env.ifaces = Names(SelectSeq(hostShown.netDir, EthName))
        /\ status.Devices = env.devices
        /\ status.Interfaces = env.ifaces
        /\ hostShown.devDir = ScenarioDir =>
              env.devices = <<<<"n", "v", "m", "e", "0", "n", "1">>, <<"s", "d", "a">>>>
        /\ hostShown.netDir = ScenarioDir =>
              env.ifaces = <<<<"e", "t", "h", "0">>>>

\* the second call has rebuilt the lists from the directory of the scenario
C13_Witness ==
    /\ Returned
    /\ reqs = 2
    /\ refreshed
    /\ hostShown.devDir = ScenarioDir
    /\ Len(env.devices) = 2
    /\ Len(env.ifaces) = 1

\* the query of a sensor count succeeded in the refresh of the running call:
\* the tool is there and its command, shown as q by the host, did not fail
QuerySucceeded(q) == env.getsysinfo # Empty /\ q.err = Nil

\* C14: after a refresh each sensor count is -1 unless its query succeeded
\* in that refresh, and is 0 or more only if it did.
C14_SentinelWhenUnknown ==
    (pc # "idle" /\ refreshed) =>
        /\ ~QuerySucceeded(hostShown.hdnum) => env.syshdnum = -1
        /\ ~QuerySucceeded(hostShown.sysfannum) => env.sysfannum = -1
        /\ env.syshdnum >= 0 => QuerySucceeded(hostShown.hdnum)
        /\ env.sysfannum >= 0 => QuerySucceeded(hostShown.sysfannum)

\* the latest getBandwidthMetrics call was made within speedtestValidity of
\* the run before it
InsideHour ==
    /\ bwLog.lastRunBefore # ZeroTime
    /\ bwLog.at <= bwLog.lastRunBefore + speedtestValidity

\* the download and the upload metric of every server, with the speeds the
\* servers hold and the run time ts
Report(targets, ts) ==
    Flatten([k \in DOMAIN targets |->
        <<[name |-> "node_network_external_download_speed_bps",
           attr |-> targets[k].ID, timestamp |-> ts,
           value |-> targets[k].DLSpeed * 1000000],
          [name |-> "node_network_external_upload_speed_bps",
           attr |-> targets[k].ID, timestamp |-> ts,
           value |-> targets[k].ULSpeed * 1000000]>>])

\* C15: a getBandwidthMetrics call discovers the servers only if the list
\* it finds is empty, and keeps a list that is not; it runs a test only if
\* there was no run yet or the latest run is more than speedtestValidity
\* back; a call inside that hour runs no test, leaves the run time and the
\* servers' speeds alone and, unless its discovery fails, returns the stored
\* speeds with the stored run time.
C15_TwoExpiryPolicies ==
    bwCalls > 0 =>
        /\ bwLog.discovered => bwLog.targetsBefore = <<>>
        /\ bwLog.targetsBefore # <<>> =>
              [k \in DOMAIN speedtestTargets |-> speedtestTargets[k].ID]
              = [k \in DOMAIN bwLog.targetsBefore |-> bwLog.targetsBefore[k].ID]
        /\ bwLog.tests > 0 => ~InsideHour
        /\ InsideHour =>
              /\ bwLog.tests = 0
              /\ speedtestLastRun = bwLog.lastRunBefore
              /\ bwLog.targetsBefore # <<>> => speedtestTargets = bwLog.targetsBefore
              /\ bwLog.err = Nil =>
                    bwLog.metrics = Report(speedtestTargets, bwLog.lastRunBefore)

\* a call inside the hour has returned the speeds an earlier call measured,
\* with that call's run time, without discovery
C15_Witness ==
    /\ bwCalls >= 2
    /\ InsideHour
    /\ ~bwLog.discovered
    /\ bwLog.err = Nil
    /\ Len(bwLog.metrics) >= 4
    /\ bwLog.metrics[1].value = 2000000
    /\ bwLog.metrics[1].timestamp = bwLog.lastRunBefore
    /\ bwLog.lastRunBefore < bwLog.at

\* C16: the call after one in which a download or upload test failed runs
\* the tests again.
C16_FailureNotMemoized ==
    (bwCalls > 0 /\ bwLog.failedBefore) => bwLog.tests > 0

\* C17: WriteMetrics has returned only if every producer of the call has
\* returned; and when the goroutines are scheduled fairly and every producer
\* returns in the end, a call that has started returns in the end, whether
\* there are more producers than the channel holds, fewer, or none.
C17_ReturnsIffAllReturn ==
    /\ [](Returned => \A i \in Workers : HasReturned(i))
    /\ [](pc = "launch" => <>Returned)

\* a call over more producers than the channel holds has returned, every
\* producer having returned and the closing goroutine having closed the
\* channel
C17_Witness ==
    /\ Returned
    /\ Len(fns) > ChanCap
    /\ closer = "done"
    /\ \A i \in Workers : HasReturned(i) /\ calls[i] = 1

\* the metrics of the batches the drain loop has received in this call
MetricsReceived ==
    SeqSum([p \in DOMAIN recv |->
                IF recv[p].type = "metrics" THEN Len(recv[p].metrics) ELSE 0])

\* the metrics of the lists of the producers that succeeded in this call
MetricsOfSucceeded ==
    SeqSum([k \in 1 .. Len(fns) |->
                IF HasReturned(k - 1) /\ ~Failed(k - 1)
                    THEN Len(res[k - 1].metrics) ELSE 0])

\* C18: with a status attached, the metric count is 0 when a call has
\* started and nothing was received yet, is the number of metrics of the
\* batches received so far in this call while it runs, and when the call
\* has returned is the sum of the lengths of the lists of the producers that
\* succeeded in it: nothing for a producer that failed, nothing left of the
\* calls before.
C18_CountIsPerCall ==
    (status.attached /\ pc # "idle") =>
        /\ pc = "launch" => status.MetricCount = 0
        /\ status.MetricCount = MetricsReceived
        /\ Returned => status.MetricCount = MetricsOfSucceeded

\* the second call has returned; in the first every producer succeeded, in
\* the second the first producer failed with a metric in hand and the second
\* returned two
C18_Witness ==
    /\ Returned
    /\ reqs = 2
    /\ Len(fns) = 2
    /\ prevFailed = {}
    /\ Failed(0) /\ Len(res[0].metrics) = 1
    /\ ~Failed(1) /\ Len(res[1].metrics) = 2
    /\ status.MetricCount = 2

\* the hostname, the devices and the interfaces a rebuild on host h leaves
Rebuilt(h) ==
    [hostname |-> IF h.HOSTNAME # Empty THEN h.HOSTNAME ELSE h.hostnameCmd.out,
     devices |-> Names(SelectSeq(h.devDir, DeviceFile)),
     ifaces |-> Names(SelectSeq(h.netDir, EthName))]

\* C20: in a call made after the expiry, every producer that has been
\* called found the hostname, the devices and the interfaces as the rebuild
\* of this call left them, and every value line written carries that
\* hostname.
C20_RefreshBeforeLaunch ==
    (pc # "idle" /\ now > envBefore.envExpiry) =>
        /\ EnvRead(env) = Rebuilt(hostShown)
        /\ \A i \in Workers : HasReturned(i) => seen[i] = Rebuilt(hostShown)
        /\ \A p \in DOMAIN w :
              w[p].kind = "value" => w[p].node = Rebuilt(hostShown).hostname

\* the second call, made after the expiry on a host that shows no hostname
\* and no interface any more, has returned: its producers found the rebuilt
\* fields, not those the first call had left, and its value line carries
\* the new hostname
C20_Witness ==
    /\ Returned
    /\ reqs = 2
    /\ now > envBefore.envExpiry
    /\ envBefore.hostname = "nas" /\ Len(envBefore.ifaces) = 1
    /\ Len(fns) = 2
    /\ \A i \in Workers : seen[i].hostname = Empty /\ seen[i].ifaces = <<>>
    /\ \E p \in DOMAIN w : w[p].kind = "value" /\ w[p].node = Empty

\* a goroutine is using the UPS client under the lock
UsingUps(u) == upsPc[u] \in {"locked", "query", "release"}

\* Close is between its Lock and its Unlock
CloseInside == closePc \in {"disconnect", "unlock"}

\* C19: Close is inside its critical section only with the lock in its
\* hands and no other user of the client inside theirs; every Disconnect it
\* called was called there, on a client with a protocol version; when Close
\* is done it does not hold the lock; and a Close that read an empty
\* protocol version has called no Disconnect and taken no lock.
C19_CloseDisconnectsUnderLock ==
    /\ CloseInside =>
          /\ upsLock = "close"
          /\ upsVersion # Empty
          /\ \A u \in UpsUsers : ~UsingUps(u)
    /\ upsLog.disconnects > 0 => upsLog.clean /\ upsLog.locked
    /\ upsLog.disconnects <= 1
    /\ closePc = "done" =>
          /\ upsLock # "close"
          /\ upsLog.disconnects = IF upsLog.saw # Empty THEN 1 ELSE 0
          /\ upsLog.locked = (upsLog.saw # Empty)
    /\ (closePc # "none" /\ upsLog.saw = Empty) =>
          /\ upsLog.disconnects = 0
          /\ ~upsLog.locked

\* Close has disconnected and is done after it had to wait for the lock: it
\* read the version of a connected client while a producer held the lock
C19_Witness ==
    /\ closePc = "done"
    /\ upsLog.disconnects = 1
    /\ upsLog.waited
    /\ upsLog.locked
    /\ upsLock = "none"
    /\ \A u \in UpsUsers : upsPc[u] = "done"

=============================================================================
